---- MODULE Spec2Model ----
(***************************************************************************)
(* Model of qutip/essolve.py: essolve (orchestration, expectation values)  *)
(* and ode2es (exponential-series construction by diagonalisation).        *)
(*                                                                         *)
(* Numbers are exact Gaussian rationals <<re, im, den>> (den > 0, lowest   *)
(* terms).  Matrices are sequences of rows.  A Qobj is a record            *)
(* [kind, d, data, isherm]; an eseries is a sequence of terms              *)
(* [ampl, rate].                                                           *)
(***************************************************************************)
EXTENDS Integers, Sequences, FiniteSets, TLC

\* ------------------------------------------------------------------------
\* Bounds
\* ------------------------------------------------------------------------
MaxObs == 2      \* longest e_ops list explored
MaxT == 2        \* longest tlist explored

\* ------------------------------------------------------------------------
\* Exact complex arithmetic
\* ------------------------------------------------------------------------
Abs(n) == IF n < 0 THEN -n ELSE n

RECURSIVE GCD(_, _)
GCD(a, b) == IF b = 0 THEN a ELSE GCD(b, a % b)

CNorm(re, im, den) ==
    LET g == GCD(GCD(Abs(re), Abs(im)), Abs(den))
        s == IF den < 0 THEN -1 ELSE 1
    IN  <<(s * re) \div g, (s * im) \div g, (s * den) \div g>>

Cx(re, im) == <<re, im, 1>>
CZero == Cx(0, 0)
COne == Cx(1, 0)

CAdd(a, b) == CNorm(a[1] * b[3] + b[1] * a[3], a[2] * b[3] + b[2] * a[3], a[3] * b[3])
CNeg(a) == <<-a[1], -a[2], a[3]>>
CMul(a, b) == CNorm(a[1] * b[1] - a[2] * b[2], a[1] * b[2] + a[2] * b[1], a[3] * b[3])
CConj(a) == <<a[1], -a[2], a[3]>>
CDiv(a, b) == CMul(a, CNorm(b[3] * b[1], -(b[3] * b[2]), b[1] * b[1] + b[2] * b[2]))
CReal(a) == CNorm(a[1], 0, a[3])

\* ------------------------------------------------------------------------
\* Dense matrices (sequences of rows)
\* ------------------------------------------------------------------------
NRows(M) == Len(M)
NCols(M) == IF Len(M) = 0 THEN 0 ELSE Len(M[1])

RECURSIVE CSumTo(_, _)
CSumTo(f, k) == IF k = 0 THEN CZero ELSE CAdd(CSumTo(f, k - 1), f[k])

MatAdd(A, B) == [r \in 1..NRows(A) |-> [c \in 1..NCols(A) |-> CAdd(A[r][c], B[r][c])]]
MatMul(A, B) ==
    [r \in 1..NRows(A) |-> [c \in 1..NCols(B) |->
        CSumTo([k \in 1..NCols(A) |-> CMul(A[r][k], B[k][c])], NCols(A))]]
Dag(A) == [r \in 1..NCols(A) |-> [c \in 1..NRows(A) |-> CConj(A[c][r])]]
ZeroMat(n, m) == [r \in 1..n |-> [c \in 1..m |-> CZero]]

DropAt(s, k) == [j \in 1..(Len(s) - 1) |-> IF j < k THEN s[j] ELSE s[j + 1]]
Minor(M, k) == [r \in 1..(NRows(M) - 1) |-> DropAt(M[r + 1], k)]

RECURSIVE Det(_)
Det(M) ==
    IF NRows(M) = 1 THEN M[1][1]
    ELSE CSumTo([k \in 1..NRows(M) |->
                    IF M[1][k] = CZero THEN CZero
                    ELSE CMul(IF k % 2 = 1 THEN M[1][k] ELSE CNeg(M[1][k]), Det(Minor(M, k)))],
                NRows(M))

ReplaceCol(M, k, b) == [r \in 1..NRows(M) |-> [c \in 1..NCols(M) |-> IF c = k THEN b[r][1] ELSE M[r][c]]]

\* scipy.linalg.solve(a, b): the unique x with a x = b, or an error when a is
\* singular or the shapes do not agree.
SolveFails(a, b) ==
    \/ NRows(a) # NCols(a)
    \/ NRows(b) # NRows(a)
    \/ Det(a) = CZero
Solve(a, b) ==
    LET dt == Det(a)
    IN  [k \in 1..NRows(a) |-> <<CDiv(Det(ReplaceCol(a, k, b)), dt)>>]


\* ------------------------------------------------------------------------
\* Collaborators: Qobj predicates, superoperator helpers, eseries, Odedata
\* ------------------------------------------------------------------------
Qobj(kind, d, data) == [kind |-> kind, d |-> d, data |-> data]
NoQobj == Qobj("none", 0, <<>>)
EmptyQobj == Qobj("empty", 0, <<>>)          \* Qobj() with no arguments

isket(q) == q.kind = "ket"
isoper(q) == q.kind = "oper"
issuper(q) == q.kind = "super"

\* prod(rho0.shape)
ShapeProd(q) == NRows(q.data) * NCols(q.data)

\* column-stacking vectorisation and its inverse
mat2vec(M) ==
    [k \in 1..(NRows(M) * NCols(M)) |->
        <<M[((k - 1) % NRows(M)) + 1][((k - 1) \div NRows(M)) + 1]>>]
Sqrt(m) == CHOOSE n \in 0..m : n * n <= m /\ (n + 1) * (n + 1) > m
vec2mat(vec) ==
    LET n == Sqrt(Len(vec))
    IN  [r \in 1..n |-> [c \in 1..n |-> vec[(c - 1) * n + r][1]]]

\* rho0 * rho0.dag()
KetToDm(q) == Qobj("oper", q.d, MatMul(q.data, Dag(q.data)))

\* liouvillian(H, c_op_list) on success: a superoperator over H's space
liouvillian(Hq, cops) == Qobj("super", Hq.d, <<>>)

\* side length of the matrix a generator is stored as
GenDim(q) == IF q.kind = "super" THEN q.d * q.d ELSE q.d

\* eseries(q, s): a one-term series; __add__ concatenates the terms
NoneSeries == [isNone |-> TRUE, terms |-> <<>>]
eseries(q, s) == [isNone |-> FALSE, terms |-> <<[ampl |-> q, rate |-> s]>>]
esadd(a, b) == [isNone |-> FALSE, terms |-> a.terms \o b.terms]
\* truth value of "out": None is false, an eseries instance is true
Truthy(o) == ~o.isNone

RECURSIVE MatSum(_, _, _)
MatSum(mats, n, m) ==
    IF Len(mats) = 0 THEN ZeroMat(n, m) ELSE MatAdd(Head(mats), MatSum(Tail(mats), n, m))

AmplData(terms) == [k \in 1..Len(terms) |-> terms[k].ampl.data]

\* estidy: merge the terms whose rates coincide, summing their amplitudes
RECURSIVE TidyTerms(_)
TidyTerms(terms) ==
    IF Len(terms) = 0 THEN <<>>
    ELSE LET h == Head(terms)
             Same(t) == t.rate = h.rate
             Other(t) == t.rate # h.rate
             grp == SelectSeq(terms, Same)
             q == h.ampl
         IN  <<[ampl |-> Qobj(q.kind, q.d, MatSum(AmplData(grp), NRows(q.data), NCols(q.data))),
                rate |-> h.rate]>>
             \o TidyTerms(SelectSeq(Tail(terms), Other))
estidy(o) == [isNone |-> o.isNone, terms |-> TidyTerms(o.terms)]

\* Odedata(): a fresh result record
Odedata == [solver |-> "", times |-> <<>>, expect |-> <<>>, states |-> <<>>]

\* ------------------------------------------------------------------------
\* Inputs explored
\* ------------------------------------------------------------------------
IntMat(rows) == [r \in 1..Len(rows) |-> [c \in 1..Len(rows[r]) |-> Cx(rows[r][c], 0)]]
I1 == Cx(0, 1)

Kets ==
    { Qobj("ket", 1, <<<<Cx(0, 2)>>>>),
      Qobj("ket", 2, <<<<COne>>, <<I1>>>>),
      Qobj("ket", 2, IntMat(<<<<1>>, <<0>>>>)) }
DensityMatrices ==
    { Qobj("oper", 2, IntMat(<<<<1, 2>>, <<3, 4>>>>)),
      Qobj("oper", 2, IntMat(<<<<1, 0>>, <<0, 0>>>>)) }
Bras == { Qobj("bra", 2, IntMat(<<<<1, 0>>>>)) }
States == Kets \cup DensityMatrices \cup Bras

Generators ==
    { Qobj("oper", 1, <<>>), Qobj("oper", 2, <<>>),
      Qobj("super", 1, <<>>), Qobj("super", 2, <<>>),
      Qobj("other", 2, <<>>) }

NoneList == [isNone |-> TRUE, items |-> <<>>]
PyList(items) == [isNone |-> FALSE, items |-> items]
CollapseLists == { NoneList, PyList(<<>>), PyList(<<Qobj("oper", 2, <<>>)>>) }

Observables == { [name |-> "A", isherm |-> TRUE], [name |-> "B", isherm |-> FALSE] }
SeqsUpTo(S, n) == UNION { [1..k -> S] : k \in 0..n }
ObsLists == SeqsUpTo(Observables, MaxObs)
TimeGrids == { [k \in 1..len |-> k - 1] : len \in 0..MaxT }

\* values the expectation primitive may produce at one time for observable e
ExpVals(e) == IF e.name = "A" THEN { Cx(1, 0), Cx(1, 1) } ELSE { Cx(2, 0), Cx(2, -1) }
\* sequences expect(e, esval(es, tlist)) may produce over len times: one value
\* throughout, or two values alternating
ExpRows(e, len) ==
    { [t \in 1..len |-> IF t % 2 = 1 THEN x ELSE y] : x \in ExpVals(e), y \in ExpVals(e) }

\* what Qobj.eigenstates() may return for an n x n generator: [w, v]
EigSys(n) ==
    IF n = 1 THEN
        { [w |-> <<Cx(2, 0)>>, v |-> IntMat(<<<<1>>>>)],
          [w |-> <<I1>>, v |-> <<<<Cx(0, 2)>>>>] }
    ELSE IF n = 2 THEN
        { [w |-> <<Cx(1, 0), Cx(-1, 0)>>, v |-> IntMat(<<<<1, 0>>, <<0, 1>>>>)],
          [w |-> <<Cx(1, 0), Cx(1, 0)>>, v |-> IntMat(<<<<1, 1>>, <<1, -1>>>>)],
          [w |-> <<Cx(1, 1), Cx(0, 0)>>, v |-> <<<<COne, I1>>, <<CZero, Cx(2, 0)>>>>],
          [w |-> <<Cx(0, 0), Cx(0, 0)>>, v |-> IntMat(<<<<1, 1>>, <<1, 1>>>>)] }
    ELSE IF n = 4 THEN
        { [w |-> <<Cx(0, 0), Cx(0, 2), Cx(0, -2), Cx(0, 0)>>,
           v |-> IntMat(<<<<1, 0, 0, 0>>, <<0, 1, 0, 0>>, <<0, 0, 1, 0>>, <<0, 0, 0, 1>>>>)],
          [w |-> <<Cx(0, 0), Cx(-1, 1), Cx(-1, -1), Cx(0, 0)>>,
           v |-> <<<<COne, I1, COne, I1>>,
                   <<CZero, Cx(2, 0), CZero, Cx(2, 0)>>,
                   <<COne, I1, Cx(-1, 0), Cx(0, -1)>>,
                   <<CZero, Cx(2, 0), CZero, Cx(-2, 0)>>>>],
          [w |-> <<Cx(0, 0), Cx(0, 0), Cx(0, 0), Cx(0, 0)>>,
           v |-> IntMat(<<<<1, 1, 0, 0>>, <<1, 1, 0, 0>>, <<0, 0, 1, 0>>, <<0, 0, 0, 1>>>>)] }
    ELSE {}

\* ------------------------------------------------------------------------
\* Program state
\* ------------------------------------------------------------------------
VARIABLES
    entry,        \* which function the caller invoked: "essolve" or "ode2es"
    pc,           \* position in the code
    H, rho0, tlist, c_op_list, e_ops,   \* arguments (ode2es takes L and rho0)
    L,            \* generator handed to ode2es
    liouvCalls,   \* calls of liouvillian
    branch,       \* branch of ode2es taken: "none", "super", "oper"
    rho,          \* ode2es's local rho0 (reassigned when a ket is promoted)
    w, v,         \* eigenvalues, eigenvector matrix
    rlen, r0, v0, vv,
    i, out,       \* loop index and accumulator of ode2es
    eigCalls, solveCalls, tidyCalls,
    es,           \* value returned by ode2es
    result_list, n, data,
    err           \* exception raised, "" when none

vars == <<entry, pc, H, rho0, tlist, c_op_list, e_ops, L, liouvCalls, branch, rho,
          w, v, rlen, r0, v0, vv, i, out, eigCalls, solveCalls, tidyCalls, es,
          result_list, n, data, err>>

inputs == <<entry, H, rho0, tlist, c_op_list, e_ops>>
odeLocals == <<branch, rho, w, v, rlen, r0, v0, vv, i, out, eigCalls, solveCalls, tidyCalls, es>>
essLocals == <<result_list, n, data>>

Init ==
    /\ \/ /\ entry = "essolve"
          /\ H \in Generators
          /\ rho0 \in States
          /\ tlist \in TimeGrids
          /\ c_op_list \in CollapseLists
          /\ e_ops \in ObsLists
          /\ L = NoQobj
          /\ rho = NoQobj
          /\ pc = "essolve"
       \/ /\ entry = "ode2es"
          /\ H = NoQobj
          /\ rho0 \in States
          /\ tlist = <<>>
          /\ c_op_list = NoneList
          /\ e_ops = <<>>
          /\ L \in Generators
          /\ rho = rho0
          /\ pc = "ode2es"
    /\ liouvCalls = 0
    /\ branch = "none"
    /\ w = <<>> /\ v = <<>>
    /\ rlen = 0 /\ r0 = <<>> /\ v0 = <<>> /\ vv = <<>>
    /\ i = 0 /\ out = NoneSeries
    /\ eigCalls = 0 /\ solveCalls = 0 /\ tidyCalls = 0
    /\ es = NoneSeries
    /\ result_list = <<>> /\ n = 0 /\ data = Odedata
    /\ err = ""

Raise(e) == pc' = "raised" /\ err' = e

\* ------------------------------------------------------------------------
\* essolve, lines 69-78: choose the generator and call ode2es
\* ------------------------------------------------------------------------
UseHamiltonian_NoEmpty(cops, r) == cops.isNone /\ isket(r)
UseHamiltonian_NoKet(cops, r) == cops.isNone \/ Len(cops.items) = 0
UseHamiltonian(cops, r) == (cops.isNone \/ Len(cops.items) = 0) /\ isket(r)

EssolveDirect ==
    /\ pc = "essolve"
    /\ UseHamiltonian(c_op_list, rho0)
    /\ L' = H
    /\ rho' = rho0
    /\ pc' = "ode2es"
    /\ UNCHANGED <<inputs, liouvCalls, branch, w, v, rlen, r0, v0, vv, i, out,
                   eigCalls, solveCalls, tidyCalls, es, essLocals, err>>

EssolveLiouvillian ==
    /\ pc = "essolve"
    /\ ~UseHamiltonian(c_op_list, rho0)
    /\ liouvCalls' = liouvCalls + 1
    /\ L' = liouvillian(H, c_op_list)
    /\ rho' = rho0
    /\ pc' = "ode2es"
    /\ UNCHANGED <<inputs, branch, w, v, rlen, r0, v0, vv, i, out,
                   eigCalls, solveCalls, tidyCalls, es, essLocals, err>>

\* liouvillian raises; essolve has no handler
EssolveLiouvillianRaises ==
    /\ pc = "essolve"
    /\ ~UseHamiltonian(c_op_list, rho0)
    /\ liouvCalls' = liouvCalls + 1
    /\ Raise("LiouvillianError")
    /\ UNCHANGED <<inputs, L, odeLocals, essLocals>>

\* ------------------------------------------------------------------------
\* ode2es, lines 121-126, 146-150, 170-171: classify generator and state
\* ------------------------------------------------------------------------
StateCheckFails_OperOnly(r) == isoper(r)
StateCheckFails(r) == ~isket(r)

Ode2esClassify ==
    /\ pc = "ode2es"
    /\ IF issuper(L)
       THEN /\ rho' = IF isket(rho) THEN KetToDm(rho) ELSE rho
            /\ branch' = "super"
            /\ pc' = "eig"
            /\ err' = err
       ELSE IF isoper(L)
       THEN IF StateCheckFails(rho)
            THEN /\ Raise("TypeError: Second argument must be a ket")
                 /\ UNCHANGED <<rho, branch>>
            ELSE /\ branch' = "oper"
                 /\ pc' = "eig"
                 /\ UNCHANGED <<rho, err>>
       ELSE /\ Raise("TypeError: First argument must be a Hamiltonian or Liouvillian")
            /\ UNCHANGED <<rho, branch>>
    /\ UNCHANGED <<inputs, L, liouvCalls, w, v, rlen, r0, v0, vv, i, out,
                   eigCalls, solveCalls, tidyCalls, es, essLocals>>

\* lines 128-129, 152-153: w, v = L.eigenstates(); v = hstack(...)
Eigenstates ==
    /\ pc = "eig"
    /\ \E sys \in EigSys(GenDim(L)) :
          /\ w' = sys.w
          /\ v' = sys.v
    /\ eigCalls' = eigCalls + 1
    /\ pc' = "project"
    /\ UNCHANGED <<inputs, L, liouvCalls, branch, rho, rlen, r0, v0, vv, i, out,
                   solveCalls, tidyCalls, es, essLocals, err>>

EigenstatesRaises ==
    /\ pc = "eig"
    /\ eigCalls' = eigCalls + 1
    /\ Raise("LinearAlgebraFailure: eigenstates")
    /\ UNCHANGED <<inputs, L, liouvCalls, branch, rho, w, v, rlen, r0, v0, vv, i, out,
                   solveCalls, tidyCalls, es, essLocals>>

\* lines 133-136, 157-160: rlen, r0, v0 = la.solve(v, r0), vv = v * diag(v0)
Flatten(br, q) == IF br = "super" THEN mat2vec(q.data) ELSE q.data
Diag(x, len) == [r \in 1..len |-> [c \in 1..len |-> IF r = c THEN x[r][1] ELSE CZero]]
ScaleColumns_Rows(vm, x, len) == MatMul(Diag(x, len), vm)
ScaleColumns(vm, x, len) == MatMul(vm, Diag(x, len))

Project ==
    /\ pc = "project"
    /\ rlen' = ShapeProd(rho)
    /\ r0' = Flatten(branch, rho)
    /\ solveCalls' = solveCalls + 1
    /\ IF SolveFails(v, r0')
       THEN /\ Raise("LinearAlgebraFailure: solve")
            /\ UNCHANGED <<v0, vv, i, out>>
       ELSE /\ v0' = Solve(v, r0')
            /\ vv' = ScaleColumns(v, v0', rlen')
            /\ out' = NoneSeries
            /\ i' = 0
            /\ pc' = IF rlen' = 0 THEN "tidy" ELSE "loop"
            /\ err' = err
    /\ UNCHANGED <<inputs, L, liouvCalls, branch, rho, w, v,
                   eigCalls, tidyCalls, es, essLocals>>

\* lines 139-144, 163-168: one iteration of the accumulation loop
Column(M, k) == [r \in 1..NRows(M) |-> <<M[r][k]>>]
Reshape(br, col) == IF br = "super" THEN vec2mat(col) ELSE col
SuperRate(x) == x
UnitaryRate_NoFactor(x) == x
UnitaryRate(x) == CMul(Cx(0, -1), x)
Rate(br, x) == IF br = "super" THEN SuperRate(x) ELSE UnitaryRate(x)
Accumulate_Replace(o, term) == term
Accumulate(o, term) == IF Truthy(o) THEN esadd(o, term) ELSE term

LoopStep ==
    /\ pc = "loop"
    /\ i < rlen
    /\ LET qo == Qobj(rho.kind, rho.d, Reshape(branch, Column(vv, i + 1)))
       IN  out' = Accumulate(out, eseries(qo, Rate(branch, w[i + 1])))
    /\ i' = i + 1
    /\ pc' = IF i' = rlen THEN "tidy" ELSE "loop"
    /\ UNCHANGED <<inputs, L, liouvCalls, branch, rho, w, v, rlen, r0, v0, vv,
                   eigCalls, solveCalls, tidyCalls, es, essLocals, err>>

\* line 173: return estidy(out)
Ode2esReturn ==
    /\ pc = "tidy"
    /\ es' = estidy(out)
    /\ tidyCalls' = tidyCalls + 1
    /\ pc' = IF entry = "ode2es" THEN "ode2es_returned" ELSE "alloc"
    /\ UNCHANGED <<inputs, L, liouvCalls, branch, rho, w, v, rlen, r0, v0, vv, i, out,
                   eigCalls, solveCalls, essLocals, err>>

\* ------------------------------------------------------------------------
\* essolve, lines 80-95: expectation values and the result record
\* ------------------------------------------------------------------------
n_expt_op == Len(e_ops)
n_tsteps == Len(tlist)

\* lines 81-84
AllocResult ==
    /\ pc = "alloc"
    /\ result_list' = IF n_expt_op = 0
                      THEN [k \in 1..n_tsteps |-> EmptyQobj]
                      ELSE ZeroMat(n_expt_op, n_tsteps)
    /\ n' = 0
    /\ pc' = IF n_expt_op = 0 THEN "package" ELSE "expect"
    /\ UNCHANGED <<inputs, L, liouvCalls, odeLocals, data, err>>

\* lines 86-87: result_list[n, :] = expect(e, esval(es, tlist))
ExpectStep ==
    /\ pc = "expect"
    /\ n < n_expt_op
    /\ \E row \in ExpRows(e_ops[n + 1], n_tsteps) :
          result_list' = [result_list EXCEPT ![n + 1] = row]
    /\ n' = n + 1
    /\ pc' = IF n' = n_expt_op THEN "package" ELSE "expect"
    /\ UNCHANGED <<inputs, L, liouvCalls, odeLocals, data, err>>

\* esval or expect raises; essolve has no handler
ExpectRaises ==
    /\ pc = "expect"
    /\ n < n_expt_op
    /\ Raise("ExpectError")
    /\ UNCHANGED <<inputs, L, liouvCalls, odeLocals, essLocals>>

\* lines 89-95
RealRow(row) == [k \in 1..Len(row) |-> CReal(row[k])]
HermProject_Inverted(e, row) == IF e.isherm THEN row ELSE RealRow(row)
HermProject(e, row) == IF e.isherm THEN RealRow(row) ELSE row
ExpectList_ShortByOne(rl, ops) == [k \in 1..(Len(ops) - 1) |-> HermProject(ops[k], rl[k])]
ExpectList_Raw(rl, ops) == rl
ExpectList(rl, ops) == [k \in 1..Len(ops) |-> HermProject(ops[k], rl[k])]

Package ==
    /\ pc = "package"
    /\ data' = [Odedata EXCEPT !.solver = "essolve",
                               !.times = tlist,
                               !.expect = ExpectList(result_list, e_ops)]
    /\ pc' = "returned"
    /\ UNCHANGED <<inputs, L, liouvCalls, odeLocals, result_list, n, err>>

Next ==
    \/ EssolveDirect
    \/ EssolveLiouvillian
    \/ EssolveLiouvillianRaises
    \/ Ode2esClassify
    \/ Eigenstates
    \/ EigenstatesRaises
    \/ Project
    \/ LoopStep
    \/ Ode2esReturn
    \/ AllocResult
    \/ ExpectStep
    \/ ExpectRaises
    \/ Package

Spec == Init /\ [][Next]_vars

\* ------------------------------------------------------------------------
\* Properties
\* ------------------------------------------------------------------------
MismatchError == "TypeError: Second argument must be a ket"
InvalidGeneratorError == "TypeError: First argument must be a Hamiltonian or Liouvillian"

\* ode2es has been entered and has classified its arguments
Classified == L.kind # "none" /\ pc # "ode2es"
\* ode2es has returned a Series
\* ode2es has just returned a Series (to its caller, or to essolve at line 78);
\* nothing after that point writes ode2es's variables
AfterOde2es == {"ode2es_returned", "alloc"}
SeriesReturned == pc \in AfterOde2es
InOde2es == pc \in {"eig", "project", "loop", "tidy"} \cup AfterOde2es

\* |psi><psi| written out entry by entry
OuterProduct(psi) ==
    [r \in 1..Len(psi) |-> [c \in 1..Len(psi) |-> CMul(psi[r][1], CConj(psi[c][1]))]]
\* the state the Series has to describe
EvolvedFrom ==
    IF issuper(L) /\ isket(rho0) THEN OuterProduct(rho0.data) ELSE rho0.data

\* C1: ode2es called with an operator generator and a non-ket state raises the
\* state-type-mismatch error; called with a generator that is neither operator
\* nor superoperator it raises the invalid-generator error whatever the state;
\* in both cases no Series is returned and neither eigenstates nor solve has
\* been called.
C1_Rejection ==
    Classified =>
        /\ (isoper(L) /\ ~issuper(L) /\ ~isket(rho0)) =>
              /\ pc = "raised" /\ err = MismatchError
              /\ es = NoneSeries /\ eigCalls = 0 /\ solveCalls = 0
        /\ (~isoper(L) /\ ~issuper(L)) =>
              /\ pc = "raised" /\ err = InvalidGeneratorError
              /\ es = NoneSeries /\ eigCalls = 0 /\ solveCalls = 0
C1_Witness ==
    /\ pc = "raised" /\ err = MismatchError
    /\ isoper(L) /\ rho0.kind = "bra"

\* C2: essolve passes H itself, without calling liouvillian, when c_op_list is
\* None or empty and rho0 is a ket; otherwise it calls liouvillian exactly once
\* and passes its result.
C2_GeneratorChoice ==
    (entry = "essolve" /\ pc # "essolve") =>
        IF (c_op_list.isNone \/ c_op_list.items = <<>>) /\ rho0.kind = "ket"
        THEN L = H /\ liouvCalls = 0
        ELSE /\ liouvCalls = 1
             /\ IF err = "LiouvillianError"
                THEN L = NoQobj
                ELSE L.kind = "super" /\ L.d = H.d
C2_Witness ==
    /\ entry = "essolve" /\ pc = "ode2es"
    /\ c_op_list = PyList(<<>>) /\ rho0 \in DensityMatrices
    /\ liouvCalls = 1 /\ issuper(L)

\* C3: a superoperator generator selects density-matrix evolution, promotes a
\* ket to |psi><psi| (any other state is used as given) and gives term k the
\* rate w[k]; an operator generator with a ket selects unitary evolution,
\* leaves the state alone and gives term k the rate -i*w[k].
C3_ModeAndRates ==
    InOde2es =>
        /\ issuper(L) =>
              /\ branch = "super"
              /\ rho.data = (IF rho0.kind = "ket" THEN OuterProduct(rho0.data) ELSE rho0.data)
              /\ \A k \in 1..Len(out.terms) : out.terms[k].rate = w[k]
              /\ \A k \in 1..Len(es.terms) : \E j \in 1..Len(w) : es.terms[k].rate = w[j]
        /\ (~issuper(L) /\ isoper(L)) =>
              /\ branch = "oper"
              /\ rho0.kind = "ket" /\ rho = rho0
              /\ \A k \in 1..Len(out.terms) :
                    out.terms[k].rate = <<w[k][2], -w[k][1], w[k][3]>>
              /\ \A k \in 1..Len(es.terms) : \E j \in 1..Len(w) :
                    es.terms[k].rate = <<w[j][2], -w[j][1], w[j][3]>>
C3_Witness ==
    /\ pc = "tidy" /\ branch = "oper" /\ rlen = 2
    /\ \E k \in 1..2 : out.terms[k].rate # w[k]

\* C4: whenever ode2es returns a Series, v * v0 = r0 and the coefficient
\* matrices of the Series (before and after tidy) sum to the initial state,
\* promoted to |psi><psi| when a ket meets a superoperator generator.
C4_ReconstructionAtZero ==
    /\ pc \in {"loop", "tidy"} \cup AfterOde2es => MatMul(v, v0) = r0
    /\ pc \in {"tidy"} \cup AfterOde2es =>
          MatSum(AmplData(out.terms), NRows(EvolvedFrom), NCols(EvolvedFrom)) = EvolvedFrom
    /\ SeriesReturned =>
          MatSum(AmplData(es.terms), NRows(EvolvedFrom), NCols(EvolvedFrom)) = EvolvedFrom
C4_Witness ==
    /\ pc = "ode2es_returned" /\ branch = "super"
    /\ rho0.kind = "ket" /\ rho0.d = 2
    /\ v[1][2] # CZero
    /\ Len(es.terms) = 3

\* C5: essolve either raises and leaves no Result, or returns a Result with
\* solver "essolve", the input time grid, and one sequence per observable, in
\* the observables' order, each with one value per time.
C5_NoPartialResult ==
    entry = "essolve" =>
        /\ pc # "returned" => data = Odedata
        /\ pc = "raised" => err # ""
        /\ pc = "returned" =>
              /\ err = ""
              /\ data.solver = "essolve"
              /\ data.times = tlist
              /\ Len(data.expect) = Len(e_ops)
              /\ \A k \in 1..Len(e_ops) :
                    /\ Len(data.expect[k]) = Len(tlist)
                    /\ \A t \in 1..Len(tlist) : \E x \in ExpVals(e_ops[k]) :
                          data.expect[k][t] \in {x, <<x[1], 0, x[3]>>}
C5_Witness ==
    /\ pc = "returned"
    /\ Len(e_ops) = 2 /\ e_ops[1] # e_ops[2]
    /\ Len(tlist) = 2

\* C6: for a Hermitian-flagged observable every returned value is the real
\* part of the computed value; for any other observable the returned sequence
\* is the computed one; each observable is treated by its own flag.
C6_HermiticityProjection ==
    pc = "returned" =>
        \A k \in 1..Len(e_ops) :
            IF e_ops[k].isherm
            THEN \A t \in 1..Len(tlist) :
                    /\ data.expect[k][t][2] = 0
                    /\ data.expect[k][t][1] * result_list[k][t][3]
                          = result_list[k][t][1] * data.expect[k][t][3]
            ELSE data.expect[k] = result_list[k]
C6_Witness ==
    /\ pc = "returned"
    /\ Len(e_ops) = 2 /\ e_ops[1].isherm /\ ~e_ops[2].isherm
    /\ Len(tlist) >= 1
    /\ result_list[1][1][2] # 0 /\ result_list[2][1][2] # 0

\* C7: with no observables, once ode2es has returned, essolve does not raise
\* and returns solver "essolve", the input time grid and an empty expectation
\* set, also for an empty time grid.
C7_NoObservables ==
    (entry = "essolve" /\ e_ops = <<>> /\ tidyCalls >= 1) =>
        /\ pc \in {"alloc", "package", "returned"}
        /\ pc = "returned" =>
              /\ data.solver = "essolve"
              /\ data.times = tlist
              /\ data.expect = <<>>
C7_Witness ==
    /\ pc = "returned" /\ e_ops = <<>> /\ tlist = <<>>
    /\ data.solver = "essolve"

\* C8: the Result carries the evolved states, one per time, when no observable
\* is given, and the expectation values, one per observable and time, otherwise.
C8_StatesOrExpectations ==
    pc = "returned" =>
        IF e_ops = <<>>
        THEN Len(data.states) = Len(tlist)
        ELSE /\ Len(data.expect) = Len(e_ops)
             /\ \A k \in 1..Len(e_ops) : Len(data.expect[k]) = Len(tlist)

\* C9: when the loop ends the accumulator holds exactly rlen terms, term k
\* being column k of v scaled by v0[k], reshaped to the state's shape, with the
\* rate derived from w[k]; every iteration keeps the terms already there; rlen
\* is the number of entries of the state and the generator's dimension; tidy
\* runs once, on the complete sum.
ColumnTerm(k) ==
    LET col == [r \in 1..rlen |-> CMul(v[r][k], v0[k][1])]
        nr == NRows(rho.data)
    IN  [ampl |-> Qobj(rho.kind, rho.d,
                       [r \in 1..nr |-> [c \in 1..NCols(rho.data) |-> col[(c - 1) * nr + r]]]),
         rate |-> IF issuper(L) THEN w[k] ELSE <<w[k][2], -w[k][1], w[k][3]>>]
C9_Accumulation ==
    /\ pc \in {"loop", "tidy"} =>
          /\ Len(out.terms) = i
          /\ out.isNone <=> i = 0
          /\ \A k \in 1..i : out.terms[k] = ColumnTerm(k)
          /\ tidyCalls = 0
    /\ (pc = "tidy" \/ SeriesReturned) =>
          /\ i = rlen /\ Len(out.terms) = rlen
          /\ rlen = NRows(rho.data) * NCols(rho.data)
          /\ rlen = Len(v) /\ rlen = Len(w)
          /\ rlen = (IF issuper(L) THEN L.d * L.d ELSE L.d)
    /\ SeriesReturned => tidyCalls = 1 /\ es = estidy(out)
C9_Witness ==
    /\ pc = "tidy" /\ branch = "super" /\ rlen = 4
    /\ Len(out.terms) = 4

\* C10: through essolve with an operator Hamiltonian, ode2es sees an operator
\* generator only together with a ket, a non-ket state always comes with a
\* superoperator generator, and the state-type-mismatch error is never raised.
C10_MismatchUnreachable ==
    (entry = "essolve" /\ isoper(H) /\ L.kind # "none") =>
        /\ isoper(L) => isket(rho0)
        /\ ~isket(rho0) => issuper(L)
        /\ err # MismatchError
C10_Witness ==
    /\ entry = "essolve" /\ isoper(H) /\ pc = "eig"
    /\ rho0 \in DensityMatrices /\ c_op_list.isNone
    /\ issuper(L)

====
